---- MODULE Spec2Model ----
(***************************************************************************)
(* Factor analysis framework (fac_analyse) over the symbol collection      *)
(* (pyloader): the result store Summary / FacSummary, the Analysis engine  *)
(* that fills it, the label construction of Analysis.__init__, the stable  *)
(* correlation and the quantile bucketing of utils.py.                     *)
(***************************************************************************)
EXTENDS Integers, Sequences, FiniteSets, TLC

VARIABLES
    facs,       \* Analysis.facs / Summary.facs: the configured factor list
    store,      \* the instance attributes assigned on Summary by the algorithms
    hlRuns,     \* how many times the half-life computation has been collected
    req,        \* the last call made on Analysis / Summary
    ret,        \* what that call returned or raised
    ctor,       \* the arguments Analysis is constructed with
    built,      \* whether Analysis.__init__ has run
    frame,      \* the frame of the collection: column name -> column
    label_periods,          \* Analysis.label_periods
    labels,                 \* Analysis.labels
    default_label_periods,  \* the class attribute Analysis.default_label_periods
    caller_periods,         \* the list object the caller passed as label_periods
    rawCorr,    \* what pl.corr yields per symbol over the whole frame
    rawTsCorr,  \* what pl.corr yields per symbol and time bucket
    rawGroupRets,   \* the mean label per group the aggregation of group_ret yields
    gcol,       \* the factor column get_ts_group is evaluated on
    garg,       \* its arguments group and drop_peak
    ggroup,     \* the group column it yields
    dl,         \* the DataLoader the caller holds as dl
    dl2,        \* the DataLoader the last call returned, dropped at the next call on dl
    lreq,       \* the last call made on a DataLoader
    lret        \* what that call returned or raised

storeVars == <<facs, store, hlRuns, req, ret>>

labelVars == <<ctor, built, frame, label_periods, labels, default_label_periods,
               caller_periods>>

corrVars == <<rawCorr, rawTsCorr, rawGroupRets>>

groupVars == <<gcol, garg, ggroup>>

loaderVars == <<dl, dl2, lreq, lret>>

vars == <<storeVars, labelVars, corrVars, groupVars, loaderVars>>

(***************************************************************************)
(* Names.                                                                  *)
(***************************************************************************)
\* column names a caller may configure as factors
FacNames == {"a", "b", "half_life"}

\* the factor lists Analysis is constructed with
FacLists == {<<"a">>, <<"a", "b">>, <<"b", "half_life">>}

\* Summary attributes the algorithms assign (analysis.py 63-64, 80, 87, 111-112,
\* 151-152, 173-174, 193)
ListAttrs == {"symbol_ic", "_ic_overall", "symbol_ts_ic", "ts_ic",
              "symbol_ts_group_rets", "ts_group_rets",
              "symbol_group_rets", "group_rets"}

ResultAttrs == ListAttrs \cup {"half_life"}

\* the names Summary.__getattr__ derives on read
TsIcDerived == {"ic", "ic_std", "ir", "ic_skew", "ic_kurt"}

DerivedAttrs == TsIcDerived \cup {"ic_overall"}

\* what Summary has besides results: the two fields of __init__ and its methods
Fields == {"facs", "labels"}

Methods == {"apply", "concat", "fac_attr", "_fac_attr_single"}

Members == Fields \cup Methods

\* names nothing defines
UnknownNames == {"nope"}

\* the names read off Summary
AttrNames == {"ts_ic", "symbol_ts_ic", "half_life", "ic", "ir", "ic_overall",
              "facs", "apply", "nope"} \cup FacNames

\* the label names Summary is constructed with (analysis.py 34, 48)
SummaryLabels == <<"label_1", "label_10">>

LabelNames == {SummaryLabels[i] : i \in 1..Len(SummaryLabels)}

(***************************************************************************)
(* Python values as far as the store needs them.                           *)
(***************************************************************************)
Absent == [set |-> FALSE, kind |-> "none", items |-> <<>>]

\* one per-factor result: the factor it was computed for, the call it is from and,
\* for the information coefficients, its values
Item(f, by) == [fac |-> f, by |-> by, val |-> <<>>]

ListOf(fs, by) == [set |-> TRUE, kind |-> "list",
                   items |-> [i \in 1..Len(fs) |-> Item(fs[i], by)]]

\* a list of results that all hold the values val
ListWith(fs, by, val) ==
    [set |-> TRUE, kind |-> "list",
     items |-> [i \in 1..Len(fs) |-> [fac |-> fs[i], by |-> by, val |-> val]]]

\* a pandas frame with one column per factor (half_life)
FrameOf(fs, by) == [set |-> TRUE, kind |-> "frame",
                    items |-> [i \in 1..Len(fs) |-> Item(fs[i], by)]]

PyVal(k, items, name) == [k |-> k, items |-> items, name |-> name]

PyNone == PyVal("None", <<>>, "")

Raise(e) == PyVal(e, <<>>, "")

Errors == {"TypeError", "ValueError", "KeyError", "IndexError", "AttributeError"}

IsError(v) == v.k \in Errors

\* the keys a result is requested with: a factor name, a position, anything else
StrKey(s) == [t |-> "str", s |-> s, i |-> 0]

IntKey(i) == [t |-> "int", s |-> "", i |-> i]

OtherKey == [t |-> "other", s |-> "", i |-> 0]

KeyNames == {"a", "b", "zzz"}

Keys == {StrKey(s) : s \in KeyNames} \cup {IntKey(i) : i \in 0..1} \cup {OtherKey}

SeqToSet(s) == {s[i] : i \in 1..Len(s)}

(***************************************************************************)
(* Summary.                                                                *)
(***************************************************************************)
\* Summary.apply as concat uses it: iterating getattr(self, attr)
ConcatOver(st, attr, pandasItems) ==
    IF ~st[attr].set THEN Raise("TypeError")
    ELSE IF pandasItems THEN Raise("AttributeError")
    ELSE PyVal("labelframe", st[attr].items, attr)

\* __getattr__ with the final branch raising AttributeError instead
DunderGetattrRaising(fs, st, name) ==
    IF name \in TsIcDerived THEN ConcatOver(st, "ts_ic", TRUE)
    ELSE IF name = "ic_overall" THEN ConcatOver(st, "_ic_overall", FALSE)
    ELSE IF name \in SeqToSet(fs) THEN PyVal("FacSummary", <<>>, name)
    ELSE Raise("AttributeError")

\* Summary.__getattr__, called for a name the instance and the class do not have
DunderGetattr(fs, st, name) ==
    IF name \in TsIcDerived THEN ConcatOver(st, "ts_ic", TRUE)
    ELSE IF name = "ic_overall" THEN ConcatOver(st, "_ic_overall", FALSE)
    ELSE IF name \in SeqToSet(fs) THEN PyVal("FacSummary", <<>>, name)
    ELSE PyNone

\* getattr(summary, name): the instance dictionary, the class, then __getattr__
Getattr(fs, st, name) ==
    IF name \in ResultAttrs /\ st[name].set
        THEN PyVal(st[name].kind, st[name].items, name)
    ELSE IF name = "facs" THEN PyVal("list", ListOf(fs, "facs").items, name)
    ELSE IF name = "labels" THEN PyVal("list", ListOf(SummaryLabels, "labels").items, name)
    ELSE IF name \in Methods THEN PyVal("method", <<>>, name)
    ELSE DunderGetattr(fs, st, name)

Min(a, b) == IF a < b THEN a ELSE b

\* the loop of _fac_attr_single over zip(self.facs, values)
ZipHits(fs, items, name) ==
    {i \in 1..Min(Len(fs), Len(items)) : fs[i] = name}

Found(item) == PyVal("value", <<item>>, item.fac)

ColumnHits(items, name) == {i \in 1..Len(items) : items[i].fac = name}

\* values[fac] for a value that is no list
Subscript(values, name) ==
    IF values.k = "frame" THEN
        IF ColumnHits(values.items, name) = {} THEN Raise("KeyError")
        ELSE Found(values.items[CHOOSE i \in ColumnHits(values.items, name) : TRUE])
    ELSE IF values.k = "labelframe" THEN
        IF name \in LabelNames THEN PyVal("labelcolumn", <<>>, name)
        ELSE Raise("KeyError")
    ELSE Raise("TypeError")

\* values.iloc[:, fac] for a value that is no list
Iloc(values, i) ==
    IF values.k = "frame" THEN
        IF i + 1 \in 1..Len(values.items) THEN Found(values.items[i + 1])
        ELSE Raise("IndexError")
    ELSE IF values.k = "labelframe" THEN
        IF i + 1 \in 1..Cardinality(LabelNames) THEN PyVal("labelcolumn", <<>>, "")
        ELSE Raise("IndexError")
    ELSE IF values.k = "FacSummary" THEN Raise("TypeError")
    ELSE Raise("AttributeError")

FacAttrSingle(fs, st, attr, key) ==
    LET values == Getattr(fs, st, attr) IN
    IF IsError(values) THEN values
    ELSE IF key.t = "str" THEN
        IF values.k = "list" THEN
            LET hits == ZipHits(fs, values.items, key.s) IN
            IF hits = {} THEN Raise("ValueError")
            ELSE Found(values.items[CHOOSE i \in hits : \A j \in hits : i <= j])
        ELSE Subscript(values, key.s)
    ELSE IF key.t = "int" THEN
        IF values.k = "list" THEN
            IF key.i + 1 \in 1..Len(values.items) THEN Found(values.items[key.i + 1])
            ELSE Raise("IndexError")
        ELSE Iloc(values, key.i)
    ELSE Raise("TypeError")

(***************************************************************************)
(* Column values and the column expressions Analysis.__init__ uses.        *)
(***************************************************************************)
Num(v) == [t |-> "num", v |-> v]

Null == [t |-> "null", v |-> 0]

NaN == [t |-> "nan", v |-> 0]

Bool(b) == [t |-> "bool", v |-> IF b THEN 1 ELSE 0]

IsNum(c) == c.t = "num"

\* a ratio n/d
Ratio(n, d) == [t |-> "num", v |-> n, d |-> d]

NullRatio == [t |-> "null", v |-> 0, d |-> 1]

Max(a, b) == IF a > b THEN a ELSE b

MapCol(F(_), column) == [i \in 1..Len(column) |-> F(column[i])]

\* Expr.fill_nan(None)
FillNanCell(c) == IF c.t = "nan" THEN Null ELSE c

FillNan(column) == MapCol(FillNanCell, column)

ValidRows(column) == {i \in 1..Len(column) : IsNum(column[i])}

\* the k-th smallest (k from 0) of the valid values of a column
KthSmallest(column, k) ==
    LET vals == {column[i].v : i \in ValidRows(column)}
        below(v) == Cardinality({i \in ValidRows(column) : column[i].v < v})
        upto(v) == Cardinality({i \in ValidRows(column) : column[i].v <= v})
    IN CHOOSE v \in vals : below(v) <= k /\ k < upto(v)

\* the quantile q (in thousandths) of a column, nearest observation
QuantileNearest(column, q) ==
    LET n == Cardinality(ValidRows(column)) IN
    KthSmallest(column, ((n - 1) * q + 500) \div 1000)

ClipCell(c, lo, hi) == IF IsNum(c) THEN Num(Max(lo, Min(hi, c.v))) ELSE c

\* the lower quantile of the winsorization band, in thousandths (q=0.025)
WinsorQ == 25

\* Expr.fac.winsorize(q=0.025, method='quantile')
Winsorize(column) ==
    IF ValidRows(column) = {} THEN column
    ELSE LET lo == QuantileNearest(column, WinsorQ)
             hi == QuantileNearest(column, 1000 - WinsorQ)
         IN [i \in 1..Len(column) |-> ClipCell(column[i], lo, hi)]

\* log and exp, on returns r with 1 + r a power of two (base-two logarithm)
RECURSIVE Log2(_)
Log2(x) == IF x <= 1 THEN 0 ELSE 1 + Log2(x \div 2)

\* (1 + col).log()
Log1pCell(c) == IF IsNum(c) THEN Num(Log2(1 + c.v)) ELSE Null

\* expr.exp() - 1
Expm1Cell(c) == IF IsNum(c) THEN Num(2 ^ c.v - 1) ELSE Null

RECURSIVE SumRows(_, _)
SumRows(column, rows) ==
    IF rows = {} THEN 0
    ELSE LET i == CHOOSE r \in rows : TRUE
         IN column[i].v + SumRows(column, rows \ {i})

\* Expr.rolling_sum(n, min_periods=mp): the window of row j is rows j-n+1..j
RollingSum(column, n, mp) ==
    [j \in 1..Len(column) |->
        LET valid == {k \in Max(1, j - n + 1)..j : IsNum(column[k])}
        IN IF Cardinality(valid) >= mp /\ valid # {}
               THEN Num(SumRows(column, valid))
               ELSE Null]

\* Expr.shift(k) for k <= 0: row i takes the value of row i - k
ShiftBack(column, k) ==
    [i \in 1..Len(column) |->
        IF i - k <= Len(column) THEN column[i - k] ELSE Null]

FillNullCell(c) == IF c.t = "null" THEN Num(0) ELSE c

\* Expr.fill_null(0)
FillNull(column) == MapCol(FillNullCell, column)

\* the rolling/shift/fill expression with no fill_null
LabelExprNoFill(column, n) ==
    ShiftBack(MapCol(Expm1Cell, RollingSum(MapCol(Log1pCell, column), n, n \div 2)),
              -n + 1)

\* the expression shifted by -n instead of -n+1
LabelExprShiftN(column, n) ==
    FillNull(ShiftBack(
        MapCol(Expm1Cell, RollingSum(MapCol(Log1pCell, column), n, n \div 2)), -n))

\* ((1 + col(base_label)).log().rolling_sum(n, min_periods=n//2).exp() - 1)
\*     .shift(-n+1).fill_null(0)
LabelExpr(column, n) ==
    FillNull(ShiftBack(
        MapCol(Expm1Cell, RollingSum(MapCol(Log1pCell, column), n, n \div 2)),
        -n + 1))

\* f'label_{n}'
LabelName(n) == "label_" \o ToString(n)

\* a literal broadcast to the height of the frame
Literal(c, height) == [i \in 1..height |-> c]

\* DataLoader.with_columns(*exprs, **named_exprs): every expression, positional or
\* named, becomes a column; a column of the same name is replaced
with_columns(fr, exprs, named_exprs) == named_exprs @@ exprs @@ fr

(***************************************************************************)
(* utils.get_ts_group                                                      *)
(***************************************************************************)
Abs(x) == IF x < 0 THEN -x ELSE x

\* eps = 1e-10 in 64-bit floats: x - eps and x + eps round back to x once x is
\* beyond 2^20 in magnitude
EpsLost(x) == Abs(x) > 2 ^ 20

\* the peak bound of get_ts_group in thousandths (peak_bound=0.025)
PeakBound == 25

\* fac_min and fac_max
FacMin(column, drop_peak) ==
    IF drop_peak THEN QuantileNearest(column, PeakBound) ELSE KthSmallest(column, 0)

FacMax(column, drop_peak) ==
    IF drop_peak THEN QuantileNearest(column, 1000 - PeakBound)
    ELSE KthSmallest(column, Cardinality(ValidRows(column)) - 1)

\* v > bins[i] for bins = linspace(lo - eps, hi + eps, group + 1), i from 0:
\* group * (v - bins[i]) is d - e * eps for the integers d and e below
AboveBin(v, i, lo, hi, group) ==
    LET eLo == IF EpsLost(lo) THEN 0 ELSE 1
        eHi == IF EpsLost(hi) THEN 0 ELSE 1
        d == group * (v - lo) - i * (hi - lo)
        e == i * (eHi + eLo) - group * eLo
    IN d > 0 \/ (d = 0 /\ e < 0)

\* the labels of the bins, as ratios
GroupLabels(group) ==
    IF group = 20 THEN
        [k \in 1..20 |-> IF k <= 10 THEN Ratio(k - 11, 10) ELSE Ratio(k - 10, 10)]
    ELSE IF group = 10 THEN
        [k \in 1..10 |-> IF k <= 5 THEN Ratio(2 * k - 12, 10) ELSE Ratio(2 * k - 10, 10)]
    ELSE [k \in 1..group |-> Ratio(2 * (k - 1) - (group - 1), group - 1)]

\* fac.qt.cut(bins, labels=labels, right=True, add_bounds=False): the label of the
\* bin (bins[k-1], bins[k]] the value lies in, null outside every bin
Cut(c, lo, hi, group) ==
    IF ~IsNum(c) THEN NullRatio
    ELSE LET bin == {k \in 1..group : AboveBin(c.v, k - 1, lo, hi, group)
                                       /\ ~AboveBin(c.v, k, lo, hi, group)}
         IN IF bin = {} THEN NullRatio
            ELSE GroupLabels(group)[CHOOSE k \in bin : TRUE]

get_ts_group_of(column, group, drop_peak) ==
    IF ValidRows(column) = {} THEN [i \in 1..Len(column) |-> NullRatio]
    ELSE LET lo == FacMin(column, drop_peak)
             hi == FacMax(column, drop_peak)
             fac == IF drop_peak
                       THEN [i \in 1..Len(column) |-> ClipCell(column[i], lo, hi)]
                       ELSE column
         IN [i \in 1..Len(column) |-> Cut(fac[i], lo, hi, group)]

\* get_ts_group(fac, group=.., drop_peak=..) evaluated on a column
get_ts_group ==
    /\ ggroup = <<>>
    /\ gcol # <<>>
    /\ ggroup' = get_ts_group_of(gcol, garg.group, garg.drop_peak)
    /\ UNCHANGED <<storeVars, labelVars, corrVars, gcol, garg, loaderVars>>

(***************************************************************************)
(* Analysis.__init__                                                       *)
(***************************************************************************)
\* Analysis.default_label_periods as the class statement sets it
DefaultLabelPeriods == <<10, 30, 60, 120, 240, 480, 720, 1200>>

NoPeriods == [t |-> "none", l |-> <<>>]

Periods(l) == [t |-> "list", l |-> l]

\* the base label column of the input: a repeated pattern of returns with a run of
\* nulls of length c.holeLen from row c.holeAt
BaseCol(c) ==
    [i \in 1..c.rows |->
        IF c.holeAt <= i /\ i < c.holeAt + c.holeLen THEN Null
        ELSE Num(c.pat[((i - 1) % Len(c.pat)) + 1])]

\* a factor column of the input: values 0..4 and one value c.outVal at row 2
FacCol(c) ==
    [i \in 1..c.rows |-> IF i = 2 THEN c.outVal ELSE Num((i * 7) % 5)]

\* the frame Analysis is constructed over
InputFrame(c) ==
    [name \in {c.base_label} \cup SeqToSet(c.facs) |->
        IF name = c.base_label THEN BaseCol(c) ELSE FacCol(c)]

FrameHeight(fr) == Len(fr[CHOOSE c \in DOMAIN fr : TRUE])

\* col(facs).fill_nan(None).fac.winsorize(q=0.025, method='quantile')
WinsorizedFacs(fr, fs) ==
    [f \in SeqToSet(fs) |-> Winsorize(FillNan(fr[f]))]

\* "for n in self.label_periods if n != 1"
Horizons(periods) == {n \in SeqToSet(periods) : n # 1}

\* the list comprehension of label expressions, by alias
LabelColumns(fr, base, periods) ==
    [name \in {LabelName(n) : n \in Horizons(periods)} |->
        LabelExpr(fr[base], CHOOSE n \in Horizons(periods) : LabelName(n) = name)]

\* the horizons with nothing prepended
PrependNone(given) == given

\* "[1, *self.label_periods]": a new list, the one read is left as it is
PrependOne(given) == <<1>> \o given

AnalysisInit ==
    /\ ~built
    /\ built' = TRUE
    /\ facs' = ctor.facs
    /\ LET given == IF ctor.label_periods.t = "none"
                       THEN default_label_periods ELSE caller_periods
           periods == PrependOne(given)
           step1 == with_columns(frame, WinsorizedFacs(frame, ctor.facs),
                        "flag" :> Literal(Bool(ctor.drop_peak), FrameHeight(frame)))
           step2 == with_columns(step1,
                        LabelColumns(step1, ctor.base_label, periods),
                        "label_1" :> step1[ctor.base_label])
       IN /\ label_periods' = periods
          /\ labels' = [i \in 1..Len(periods) |-> LabelName(periods[i])]
          /\ frame' = step2
    /\ store' = [a \in ResultAttrs |-> Absent]
    /\ UNCHANGED <<ctor, default_label_periods, caller_periods, hlRuns, req, ret,
                   corrVars, groupVars, loaderVars>>

(***************************************************************************)
(* Analysis: the algorithms, as far as they change the store.              *)
(***************************************************************************)
NoFacs == [t |-> "none", s |-> "", l |-> <<>>]

StrFacs(s) == [t |-> "str", s |-> s, l |-> <<>>]

ListFacs(l) == [t |-> "list", s |-> "", l |-> l]

\* the facs arguments of ts_group_ret
FacsArgs == {NoFacs, StrFacs("b"), ListFacs(<<"b", "a">>)}

\* those of group_ret
GroupFacsArgs == {NoFacs, ListFacs(<<"b">>)}

\* "if facs is None: facs = self.facs; if isinstance(facs, str): facs = [facs]"
ResolveFacs(fs, arg) ==
    IF arg.t = "none" THEN fs
    ELSE IF arg.t = "str" THEN <<arg.s>>
    ELSE arg.l

Symbols == <<"s1", "s2">>

\* the clipping bound of stable_corr, 0.2, in tenths
IcBound == 2

\* stable_corr with the clip left out
StableCorrNoClip(c) == FillNanCell(c)

\* pl.corr(x, y, method=method).clip(-0.2, 0.2).fill_nan(None), correlations in
\* tenths; clip leaves a NaN as it is
stable_corr(c) == FillNanCell(ClipCell(c, -IcBound, IcBound))

\* select([stable_corr(fac, label) ...], count=pl.len()) of one symbol's frame
SymbolIc == [s \in SeqToSet(Symbols) |-> stable_corr(rawCorr[s])]

RECURSIVE SumOver(_, _)
SumOver(f, S) ==
    IF S = {} THEN 0
    ELSE LET x == CHOOSE y \in S : TRUE IN f[x] + SumOver(f, S \ {x})

\* agg_dfs(weight='count'): the count-weighted mean over the symbols that have a value
AggWeighted(vals, count) ==
    LET have == {x \in DOMAIN vals : IsNum(vals[x])} IN
    IF have = {} THEN NullRatio
    ELSE Ratio(SumOver([x \in have |-> count * vals[x].v], have),
               SumOver([x \in have |-> count], have))

Missing == [t |-> "missing", v |-> 0]

\* the time buckets in which some symbol has rows
Buckets == {b \in 1..Len(rawTsCorr[Symbols[1]]) :
               \E s \in SeqToSet(Symbols) : rawTsCorr[s][b] # Missing}

\* group_by_time(rule).agg(stable_corr ...).align(on=daily_col): one row per bucket
\* of any symbol, null where the symbol has none
SymbolTsIc ==
    [s \in SeqToSet(Symbols) |->
        [b \in Buckets |->
            IF rawTsCorr[s][b] = Missing THEN Null ELSE stable_corr(rawTsCorr[s][b])]]

\* agg_dfs({daily_col: 'first'}): per bucket the value of the first symbol that has one
AggFirst(vals) ==
    [b \in Buckets |->
        LET have == {i \in 1..Len(Symbols) : IsNum(vals[Symbols[i]][b])} IN
        IF have = {} THEN Null
        ELSE vals[Symbols[CHOOSE i \in have : \A j \in have : i <= j]][b]]

Methods_ic == {"pearson", "spearman"}

Rules == {"1mo", "1w"}

Call(op, attr, key) == [op |-> op, attr |-> attr, key |-> key]

NoCall == Call("none", "", OtherKey)

Returned == PyVal("self", <<>>, "")

ic_overall(method) ==
    /\ built
    /\ store' = [store EXCEPT
                    !["symbol_ic"] = ListWith(facs, method, SymbolIc),
                    !["_ic_overall"] = ListWith(facs, method,
                        <<AggWeighted(SymbolIc, FrameHeight(frame))>>)]
    /\ req' = Call("ic_overall", method, OtherKey)
    /\ ret' = Returned
    /\ UNCHANGED <<facs, hlRuns, labelVars, corrVars, groupVars, loaderVars>>

ts_ic(rule, keep_symbol_ic) ==
    /\ built
    /\ store' = [store EXCEPT
                    !["symbol_ts_ic"] = IF keep_symbol_ic
                                           THEN ListWith(facs, rule, SymbolTsIc) ELSE @,
                    !["ts_ic"] = ListWith(facs, rule, AggFirst(SymbolTsIc))]
    /\ req' = Call("ts_ic", rule, OtherKey)
    /\ ret' = Returned
    /\ UNCHANGED <<facs, hlRuns, labelVars, corrVars, groupVars, loaderVars>>

ts_group_ret(arg) ==
    LET fl == ResolveFacs(facs, arg) IN
    /\ built
    /\ store' = [store EXCEPT !["symbol_ts_group_rets"] = ListOf(fl, "group"),
                              !["ts_group_rets"] = ListOf(fl, "group")]
    /\ req' = Call("ts_group_ret", "", OtherKey)
    /\ ret' = Returned
    /\ UNCHANGED <<facs, hlRuns, labelVars, corrVars, groupVars, loaderVars>>

\* the frame of one factor's grouped returns: a column per label, a row per group
\* from the bottom group to the top group
GroupFrame(lbls, raw) ==
    [name \in SeqToSet(lbls) |->
        LET i == CHOOSE j \in 1..Len(lbls) : lbls[j] = name
        IN [g \in 1..Len(raw[i]) |-> Num(raw[i][g])]]

\* the grouped returns of the labels label_1 and label_10, bottom and top group
DefaultGroupRets == <<<<0, 6>>, <<0, 30>>>>

group_ret(arg, rule) ==
    LET fl == ResolveFacs(facs, arg) IN
    /\ built
    /\ store' = [store EXCEPT
                    !["symbol_group_rets"] = ListWith(fl, rule, GroupFrame(labels, rawGroupRets)),
                    !["group_rets"] = ListWith(fl, rule, GroupFrame(labels, rawGroupRets))]
    /\ req' = Call("group_ret", rule, OtherKey)
    /\ ret' = Returned
    /\ UNCHANGED <<facs, hlRuns, labelVars, corrVars, groupVars, loaderVars>>

\* "if self.summary.half_life is None": the store after Analysis.half_life
HalfLifeStore(fs, st) ==
    IF Getattr(fs, st, "half_life").k = "None"
        THEN [st EXCEPT !["half_life"] = FrameOf(fs, "half_life")]
        ELSE st

HalfLifeRuns(fs, st) == IF Getattr(fs, st, "half_life").k = "None" THEN 1 ELSE 0

half_life ==
    /\ built
    /\ store' = HalfLifeStore(facs, store)
    /\ hlRuns' = hlRuns + HalfLifeRuns(facs, store)
    /\ req' = Call("half_life", "", OtherKey)
    /\ ret' = Returned
    /\ UNCHANGED <<facs, labelVars, corrVars, groupVars, loaderVars>>

\* the horizons label names are read back to
HorizonCandidates == SeqToSet(DefaultLabelPeriods) \cup (1..10)

\* int(s.name.replace('label_', ''))
HorizonOfLabel(name) == CHOOSE n \in HorizonCandidates : LabelName(n) = name

RSub(a, b) == Ratio(a.v * b.d - b.v * a.d, a.d * b.d)

RGreater(a, b) == a.v * b.d > b.v * a.d

\* Series.idxmax(): the first position that holds the maximum
IdxMax(series) ==
    CHOOSE i \in 1..Len(series) :
        /\ \A j \in 1..Len(series) : ~RGreater(series[j], series[i])
        /\ \A j \in 1..(i - 1) : RGreater(series[i], series[j])

\* the spread with the cost not divided by the horizon
NetSpreadFlatCost(fr, lbls, periods, c_rate) ==
    LET df == [i \in 1..Len(lbls) |->
                  [g \in 1..Len(fr[lbls[i]]) |->
                      Ratio(fr[lbls[i]][g].v, HorizonOfLabel(lbls[i]))]]
    IN [i \in 1..Len(lbls) |->
           RSub(RSub(df[i][Len(df[i])], df[i][1]), Ratio(4 * c_rate, 1))]

\* "df = max_group_ret - min_group_ret - c_rate * 4" over the columns self.labels,
\* each divided by its horizon, with c_rate / np.array(self.label_periods)
NetSpread(fr, lbls, periods, c_rate) ==
    LET df == [i \in 1..Len(lbls) |->
                  [g \in 1..Len(fr[lbls[i]]) |->
                      Ratio(fr[lbls[i]][g].v, HorizonOfLabel(lbls[i]))]]
        c == [i \in 1..Len(periods) |-> Ratio(c_rate, periods[i])]
        max_group_ret == [i \in 1..Len(lbls) |-> df[i][Len(df[i])]]
        min_group_ret == [i \in 1..Len(lbls) |-> df[i][1]]
    IN [i \in 1..Len(lbls) |->
           RSub(RSub(max_group_ret[i], min_group_ret[i]), Ratio(4 * c[i].v, c[i].d))]

\* "return best_period, best_ret, df"
BestHorizon(fr, lbls, periods, c_rate) ==
    LET df == NetSpread(fr, lbls, periods, c_rate)
        i == IdxMax(df)
    IN [best_period |-> ToString(HorizonOfLabel(lbls[i])), best_ret |-> df[i], df |-> df]

\* Analysis.group_analyse(fac, c_rate), c_rate in units of 1e-4
group_analyse(key, c_rate) ==
    /\ built
    /\ key.t \in {"str", "int"}
    /\ store' = HalfLifeStore(facs, store)
    /\ hlRuns' = hlRuns + HalfLifeRuns(facs, store)
    /\ req' = Call("group_analyse", "group_rets", key) @@ ("c_rate" :> c_rate)
    /\ ret' = IF key.t = "int" /\ key.i + 1 \notin 1..Len(facs)
                THEN Raise("IndexError")
                ELSE LET df == FacAttrSingle(facs, store', "group_rets", key)
                         hl == FacAttrSingle(facs, store', "half_life", key)
                     IN IF IsError(df) THEN df
                        ELSE IF IsError(hl) THEN hl
                        ELSE PyVal("best",
                                   <<BestHorizon(df.items[1].val, labels, label_periods,
                                                 c_rate)>>,
                                   df.name)
    /\ UNCHANGED <<facs, labelVars, corrVars, groupVars, loaderVars>>

\* summary.<name>
ReadAttr(name) ==
    /\ built
    /\ req' = Call("getattr", name, OtherKey)
    /\ ret' = Getattr(facs, store, name)
    /\ UNCHANGED <<facs, store, hlRuns, labelVars, corrVars, groupVars, loaderVars>>

\* the attributes results are requested from
LookupAttrs == {"ts_ic", "ts_group_rets", "group_rets", "half_life", "ic_overall", "nope"}

\* summary.fac_attr(attr, fac), summary[fac].<attr>
fac_attr(attr, key) ==
    /\ built
    /\ req' = Call("fac_attr", attr, key)
    /\ ret' = FacAttrSingle(facs, store, attr, key)
    /\ UNCHANGED <<facs, store, hlRuns, labelVars, corrVars, groupVars, loaderVars>>

(***************************************************************************)
(* DataLoader (py_loader.py) over the collection it wraps (_RS_Loader).    *)
(***************************************************************************)
\* pl.DataFrame(...) and pl.LazyFrame(...): rows of a key and a value column
DataFrame(rows) == [lazy |-> FALSE, rows |-> rows]

LazyFrame(rows) == [lazy |-> TRUE, rows |-> rows]

Row(k, c) == [k |-> k, v |-> c]

\* test_df = pl.DataFrame({"a": [1, 2, 3], "b": [4, 5, 6]})
test_df == DataFrame(<<Row(1, Num(4)), Row(2, Num(5)), Row(3, Num(6))>>)

NoSymbols == [t |-> "None", l |-> <<>>]

SymbolList(l) == [t |-> "list", l |-> l]

NoneValue == [t |-> "None", s |-> ""]

StrValue(s) == [t |-> "str", s |-> s]

Datetime(y, m, d) == [t |-> "datetime", y |-> y, m |-> m, d |-> d]

\* the date strings start and end are assigned with, as the datetimes they denote
ParseDatetime(s) ==
    IF s = "2024-01-01" THEN Datetime(2024, 1, 1)
    ELSE IF s = "2024-01-02" THEN Datetime(2024, 1, 2)
    ELSE IF s = "2024-01-03" THEN Datetime(2024, 1, 3)
    ELSE NoneValue

Ok(rs) == [err |-> "", rs |-> rs]

Fail(e, rs) == [err |-> e, rs |-> rs]

\* _RS_Loader(typ, symbols): no frames yet
RsNew(typ, symbols) ==
    [dfs |-> <<>>, symbols |-> symbols, type |-> StrValue(typ),
     start |-> NoneValue, end |-> NoneValue, freq |-> NoneValue]

\* the dfs setter: the symbol list, when there is one, must be as long as the frames
RsSetDfs(rs, frames) ==
    IF rs.symbols.t = "list" /\ Len(rs.symbols.l) # Len(frames)
        THEN Fail("SymbolMismatch", rs)
        ELSE Ok([rs EXCEPT !.dfs = frames])

\* the symbols setter
RsSetSymbols(rs, names) ==
    IF Len(names) # Len(rs.dfs) THEN Fail("SymbolMismatch", rs)
    ELSE Ok([rs EXCEPT !.symbols = SymbolList(names)])

\* the setters of type, start, end and freq
RsSetMeta(rs, field, s) ==
    Ok([rs EXCEPT ![field] = IF field \in {"start", "end"} THEN ParseDatetime(s)
                               ELSE StrValue(s)])

RsSetAttr(rs, obj, value) ==
    IF obj = "dfs" THEN RsSetDfs(rs, value)
    ELSE IF obj = "symbols" THEN RsSetSymbols(rs, value)
    ELSE RsSetMeta(rs, obj, value)

\* with_type .. with_dfs of the collection: a copy that carries the new value
RsWith(rs, field, value) == RsSetAttr(rs, field, value)

\* find_index: the position (from 1) of a symbol, 0 for None
RsFindIndex(rs, s) ==
    IF rs.symbols.t = "None" THEN 0
    ELSE LET hits == {i \in 1..Len(rs.symbols.l) : rs.symbols.l[i] = s} IN
         IF hits = {} THEN 0 ELSE CHOOSE i \in hits : \A j \in hits : i <= j

\* collection[item]
RsGetItem(rs, item) ==
    LET i == IF item.t = "int" THEN item.i + 1 ELSE RsFindIndex(rs, item.s) IN
    IF i \in 1..Len(rs.dfs) THEN [k |-> "frame", v |-> rs.dfs[i]]
    ELSE [k |-> IF item.t = "int" THEN "IndexError" ELSE "KeyError", v |-> FALSE]

\* collection[item] = value: the slot of a position or of a symbol is replaced; a
\* symbol the list does not hold is added with its frame
RsSetItem(rs, item, value) ==
    IF item.t = "int" THEN
        IF item.i + 1 \in 1..Len(rs.dfs)
            THEN Ok([rs EXCEPT !.dfs[item.i + 1] = value])
            ELSE Fail("IndexError", rs)
    ELSE LET i == RsFindIndex(rs, item.s) IN
         IF i # 0 THEN Ok([rs EXCEPT !.dfs[i] = value])
         ELSE Ok([rs EXCEPT !.dfs = Append(@, value),
                            !.symbols = SymbolList(Append(@.l, item.s))])

\* the dfs getter: a new list of the frames
RsGetDfs(rs) == [alias |-> FALSE, items |-> rs.dfs]

CollectFrame(f) == [f EXCEPT !.lazy = FALSE]

LazyOf(f) == [f EXCEPT !.lazy = TRUE]

\* collect(par, inplace): every frame materialized; the receiver too when inplace
RsCollect(rs, par, inplace) ==
    LET done == [rs EXCEPT !.dfs = [i \in 1..Len(rs.dfs) |-> CollectFrame(rs.dfs[i])]]
    IN [self |-> IF inplace THEN done ELSE rs, out |-> done]

RsLazy(rs) == [rs EXCEPT !.dfs = [i \in 1..Len(rs.dfs) |-> LazyOf(rs.dfs[i])]]

\* "Note that only the first dataframe is checked."
RsIsEager(rs) == ~rs.dfs[1].lazy

RsIsLazy(rs) == rs.dfs[1].lazy

FrameKeys(f) == {f.rows[i].k : i \in 1..Len(f.rows)}

\* the key values of the join of the frames 1..i
RECURSIVE JoinKeys(_, _, _)
JoinKeys(frames, i, how) ==
    IF i = 1 THEN FrameKeys(frames[1])
    ELSE LET left == JoinKeys(frames, i - 1, how)
             right == FrameKeys(frames[i])
         IN IF how = "outer" THEN left \cup right
            ELSE IF how = "inner" THEN left \cap right
            ELSE left

RECURSIVE SortedKeys(_)
SortedKeys(S) ==
    IF S = {} THEN <<>>
    ELSE LET m == CHOOSE x \in S : \A y \in S : x <= y
         IN <<m>> \o SortedKeys(S \ {m})

\* the value a frame holds for a key, null when it has no row of that key
ValueAt(f, k) ==
    LET hits == {i \in 1..Len(f.rows) : f.rows[i].k = k} IN
    IF hits = {} THEN Null ELSE f.rows[CHOOSE i \in hits : TRUE].v

\* align(on, how): every frame joined to the joined keys; how None is "outer"
RsAlign(rs, how) ==
    LET h == IF how = "None" THEN "outer" ELSE how
        keys == SortedKeys(JoinKeys(rs.dfs, Len(rs.dfs), h))
    IN [rs EXCEPT !.dfs =
           [i \in 1..Len(rs.dfs) |->
               [rs.dfs[i] EXCEPT !.rows =
                   [j \in 1..Len(keys) |-> Row(keys[j], ValueAt(rs.dfs[i], keys[j]))]]]]

\* DataLoader(rs)
Wrap(rs) == [live |-> TRUE, dl |-> rs]

Unbound == [live |-> FALSE, dl |-> RsNew("", NoSymbols)]

Res(err, self, out) == [err |-> err, self |-> self, out |-> out]

FrameArg(f) == [t |-> "frame", f |-> f, l |-> <<>>]

ListArg(l) == [t |-> "list", f |-> DataFrame(<<>>), l |-> l]

\* __init__ with "dl.dfs = typ" left out
InitNoFrames(typ, symbols) == Ok(RsNew("", symbols))

\* DataLoader.__init__(typ, symbols) for a frame or a list of frames
DunderInit(typ, symbols) ==
    LET frames == IF typ.t = "frame" THEN <<typ.f>> ELSE typ.l
    IN RsSetDfs(RsNew("", symbols), frames)

\* DataLoader.dfs
dfs(self) == RsGetDfs(self.dl)

\* "self.dfs[item] = value"
SetitemOnDfs(self, item, value) == Res("", self, self)

\* DataLoader.__setitem__
DunderSetitem(self, item, value) ==
    LET r == RsSetItem(self.dl, item, value) IN Res(r.err, Wrap(r.rs), Wrap(r.rs))

\* DataLoader.__getitem__
DunderGetitem(self, item) == RsGetItem(self.dl, item)

\* is_eager answering with is_lazy of the collection
IsEagerAsLazy(self) == RsIsLazy(self.dl)

is_eager(self) == RsIsEager(self.dl)

is_lazy(self) == RsIsLazy(self.dl)

DelegatedAttrs == {"dfs", "symbols", "type", "start", "end", "freq"}

\* DataLoader.__setattr__: the six names go to the collection, any other name is an
\* attribute of the wrapper
DunderSetattr(self, obj, value) ==
    IF obj \in DelegatedAttrs
        THEN LET r == RsSetAttr(self.dl, obj, value) IN Res(r.err, Wrap(r.rs), Wrap(r.rs))
        ELSE Res("", self, self)

\* a builder that sets the value on the receiver and returns it
WithInPlace(self, field, value) ==
    LET r == RsWith(self.dl, field, value) IN Res(r.err, Wrap(r.rs), Wrap(r.rs))

\* with_type, with_symbols, with_start, with_end, with_freq, with_dfs
with_field(self, field, value) ==
    LET r == RsWith(self.dl, field, value) IN Res(r.err, self, Wrap(r.rs))

\* collect with par and inplace interchanged
CollectSwapped(self, par, inplace) ==
    LET r == RsCollect(self.dl, inplace, par) IN Res("", Wrap(r.self), Wrap(r.out))

\* DataLoader.collect(par, inplace)
collect(self, par, inplace) ==
    LET r == RsCollect(self.dl, par, inplace) IN Res("", Wrap(r.self), Wrap(r.out))

\* DataLoader.lazy()
lazy(self) == Res("", self, Wrap(RsLazy(self.dl)))

\* align with how defaulting to "left"
AlignLeftDefault(self, how) ==
    Res("", self, Wrap(RsAlign(self.dl, IF how = "None" THEN "left" ELSE how)))

\* DataLoader.align(*on, how=None)
align(self, how) == Res("", self, Wrap(RsAlign(self.dl, how)))

analysisVars == <<storeVars, labelVars, corrVars, groupVars>>

LCall(op, recv, before, item, value) ==
    [op |-> op, recv |-> recv, before |-> before, item |-> item, value |-> value]

LRet(k, v) == [k |-> k, v |-> v]

NoLoader ==
    /\ dl = Unbound
    /\ dl2 = Unbound
    /\ lreq = LCall("none", "dl", Unbound, OtherKey, FALSE)
    /\ lret = LRet("None", FALSE)

Recv(r) == IF r = "dl" THEN dl ELSE dl2

\* the most frames a collection grows to by assignment to new symbols
MaxFrames == 2

\* dl = DataLoader(typ, symbols)
DataLoaderInit(typ, symbols) ==
    LET r == DunderInit(typ, symbols) IN
    /\ ~dl.live
    /\ dl' = IF r.err = "" THEN Wrap(r.rs) ELSE dl
    /\ lreq' = LCall("init", "dl", dl, OtherKey, [typ |-> typ, symbols |-> symbols])
    /\ lret' = LRet(IF r.err = "" THEN "DataLoader" ELSE r.err, FALSE)
    /\ dl2' = Unbound
    /\ UNCHANGED analysisVars

\* dl[item] = value
SetItem(item, value) ==
    LET r == DunderSetitem(dl, item, value) IN
    /\ dl.live
    /\ item.t \in {"int", "str"}
    /\ item.t = "str" => dl.dl.symbols.t = "list"
    /\ Len(r.self.dl.dfs) <= MaxFrames
    /\ dl' = IF r.err = "" THEN r.self ELSE dl
    /\ lreq' = LCall("setitem", "dl", dl, item, value)
    /\ lret' = LRet(IF r.err = "" THEN "None" ELSE r.err, FALSE)
    /\ dl2' = Unbound
    /\ UNCHANGED analysisVars

\* dl.dfs[i] = value
DfsSetItem(i, value) ==
    LET list == dfs(dl)
        ok == i + 1 \in 1..Len(list.items)
        items == IF ok THEN [list.items EXCEPT ![i + 1] = value] ELSE list.items
    IN /\ dl.live
       /\ dl' = IF list.alias THEN [dl EXCEPT !.dl.dfs = items] ELSE dl
       /\ lreq' = LCall("dfs_setitem", "dl", dl, IntKey(i), value)
       /\ lret' = IF ok THEN LRet("list", items) ELSE LRet("IndexError", FALSE)
       /\ dl2' = Unbound
    /\ UNCHANGED analysisVars

\* dl[item]
GetItem(item) ==
    /\ dl.live
    /\ item.t \in {"int", "str"}
    /\ lreq' = LCall("getitem", "dl", dl, item, FALSE)
    /\ lret' = DunderGetitem(dl, item)
    /\ dl2' = Unbound
    /\ UNCHANGED <<dl, analysisVars>>

\* dl.<obj> = value
SetAttr(obj, value) ==
    LET r == DunderSetattr(dl, obj, value) IN
    /\ dl.live
    /\ dl' = IF r.err = "" THEN r.self ELSE dl
    /\ lreq' = LCall("setattr", "dl", dl, StrKey(obj), value)
    /\ lret' = LRet(IF r.err = "" THEN "None" ELSE r.err, FALSE)
    /\ dl2' = Unbound
    /\ UNCHANGED analysisVars

\* dl2 = <r>.with_<field>(value), dl2 = <r>.collect(par, inplace), dl2 = <r>.lazy(),
\* dl2 = <r>.align(on, how): the receiver is dl or dl2
Returning(op, r, res, item, value) ==
    /\ Recv(r).live
    /\ dl' = IF r = "dl" THEN res.self ELSE dl
    /\ dl2' = IF res.err = "" THEN res.out ELSE IF r = "dl2" THEN res.self ELSE Unbound
    /\ lreq' = LCall(op, r, Recv(r), item, value)
    /\ lret' = LRet(IF res.err = "" THEN "DataLoader" ELSE res.err, FALSE)
    /\ UNCHANGED analysisVars

With(r, field, value) ==
    Returning("with", r, with_field(Recv(r), field, value), StrKey(field), value)

Collect(r, par, inplace) ==
    Returning("collect", r, collect(Recv(r), par, inplace), OtherKey,
              [par |-> par, inplace |-> inplace])

Lazy(r) == Returning("lazy", r, lazy(Recv(r)), OtherKey, FALSE)

Align(r, how) ==
    /\ Recv(r).live
    /\ Len(Recv(r).dl.dfs) >= 1
    /\ Returning("align", r, align(Recv(r), how), OtherKey, how)

\* <r>.is_eager(), <r>.is_lazy()
IsEager(r) ==
    /\ Recv(r).live
    /\ Len(Recv(r).dl.dfs) >= 1
    /\ lreq' = LCall("is_eager", r, Recv(r), OtherKey, FALSE)
    /\ lret' = LRet("bool", is_eager(Recv(r)))
    /\ dl2' = IF r = "dl" THEN Unbound ELSE dl2
    /\ UNCHANGED <<dl, analysisVars>>

IsLazy(r) ==
    /\ Recv(r).live
    /\ Len(Recv(r).dl.dfs) >= 1
    /\ lreq' = LCall("is_lazy", r, Recv(r), OtherKey, FALSE)
    /\ lret' = LRet("bool", is_lazy(Recv(r)))
    /\ dl2' = IF r = "dl" THEN Unbound ELSE dl2
    /\ UNCHANGED <<dl, analysisVars>>

Ctor(fs, rows, pat, holeAt, holeLen, outVal, periods, drop_peak) ==
    [facs |-> fs, base_label |-> "ret", rows |-> rows, pat |-> pat,
     holeAt |-> holeAt, holeLen |-> holeLen, outVal |-> outVal,
     label_periods |-> periods, drop_peak |-> drop_peak]

\* the state before Analysis(...) for the arguments c
Unbuilt(c) ==
    /\ ctor = c
    /\ built = FALSE
    /\ frame = InputFrame(c)
    /\ label_periods = <<>>
    /\ labels = <<>>
    /\ default_label_periods = DefaultLabelPeriods
    /\ caller_periods = c.label_periods.l
    /\ facs = <<>>
    /\ store = [a \in ResultAttrs |-> Absent]
    /\ hlRuns = 0
    /\ req = NoCall
    /\ ret = PyNone

NoGroup ==
    /\ gcol = <<>>
    /\ garg = [group |-> 10, drop_peak |-> FALSE]
    /\ ggroup = <<>>

Init ==
    /\ \E fs \in FacLists :
          Unbuilt(Ctor(fs, 3, <<1, 0>>, 0, 0, Num(2), Periods(<<10>>), TRUE))
    /\ rawCorr = [s \in SeqToSet(Symbols) |-> Num(3)]
    /\ rawTsCorr = [s \in SeqToSet(Symbols) |-> <<Num(3)>>]
    /\ rawGroupRets = DefaultGroupRets
    /\ NoGroup
    /\ NoLoader

Next ==
    \/ AnalysisInit
    \/ \E m \in Methods_ic : ic_overall(m)
    \/ \E r \in Rules, k \in BOOLEAN : ts_ic(r, k)
    \/ \E a \in FacsArgs : ts_group_ret(a)
    \/ \E a \in GroupFacsArgs, r \in {"None", "1mo"} : group_ret(a, r)
    \/ half_life
    \/ \E k \in Keys : group_analyse(k, 3)
    \/ \E n \in AttrNames : ReadAttr(n)
    \/ \E a \in LookupAttrs, k \in Keys : fac_attr(a, k)

Spec == Init /\ [][Next]_vars

(***************************************************************************)
(* Construction over a range of frames and arguments.                      *)
(***************************************************************************)
\* the return patterns of the base label (1 + r a power of two)
Patterns == {<<1, 0>>, <<3, 1>>, <<1, 1>>, <<0, 3>>}

\* runs of nulls in the base label: <<first row, length>>
Holes == {<<0, 0>>, <<1, 1>>, <<2, 3>>, <<88, 2>>}

\* the value at row 2 of every factor column
OutValues == {Num(2), Num(50), Num(-50), NaN}

\* the label_periods arguments and the frame heights they are tried with
PeriodArgs == {NoPeriods, Periods(<<>>), Periods(<<2>>), Periods(<<1, 3>>),
               Periods(<<3, 2>>), Periods(<<10>>)}

Heights(periods) ==
    IF periods = NoPeriods THEN {2, 5}
    ELSE IF periods = Periods(<<10>>) THEN {5, 41, 100}
    ELSE {2, 5, 41}

LabelCtors ==
    {Ctor(<<"f">>, rows, pat, h[1], h[2], out, periods, drop) :
        rows \in {2, 5, 41, 100}, pat \in Patterns, h \in Holes, out \in OutValues,
        periods \in PeriodArgs, drop \in BOOLEAN}

InitLabel ==
    /\ \E c \in LabelCtors : c.rows \in Heights(c.label_periods) /\ Unbuilt(c)
    /\ rawCorr = [s \in SeqToSet(Symbols) |-> Num(3)]
    /\ rawTsCorr = [s \in SeqToSet(Symbols) |-> <<Num(3)>>]
    /\ rawGroupRets = DefaultGroupRets
    /\ NoGroup
    /\ NoLoader

NextLabel == AnalysisInit

SpecLabel == InitLabel /\ [][NextLabel]_vars

\* the factor and label columns as they were before construction
RawFrame == InputFrame(ctor)

LabelNamesOf(periods) == {LabelName(periods[i]) : i \in 1..Len(periods)}

\* C2: with drop_peak False the factor columns of the constructed collection hold
\* the raw factor values, with drop_peak True they hold the values clipped to the
\* [2.5%, 97.5%] band; in both cases the only columns added are the labels and the
\* base label column is as it was.
C2_WinsorizeTogglable ==
    built =>
        /\ \A f \in SeqToSet(ctor.facs) :
              frame[f] = IF ctor.drop_peak THEN Winsorize(FillNan(RawFrame[f]))
                         ELSE RawFrame[f]
        /\ DOMAIN frame = DOMAIN RawFrame \cup LabelNamesOf(label_periods)
        /\ frame[ctor.base_label] = RawFrame[ctor.base_label]

\* the compounded return of the rows i..i+n-1 of a column of returns
RECURSIVE Compounded(_, _, _)
Compounded(column, i, n) ==
    IF n = 0 THEN 1 ELSE (1 + column[i].v) * Compounded(column, i + 1, n - 1)

WindowValid(column, i, n) == \A k \in i..(i + n - 1) : IsNum(column[k])

\* the scenario of 100 rows and label_periods=[10]
Scenario == built /\ ctor.rows = 100 /\ ctor.label_periods = Periods(<<10>>)

\* label_10 at the row numbered i from 0 is the compounded return of rows [i, i+10)
CompoundedAt(i) ==
    WindowValid(RawFrame["ret"], i + 1, 10)
        => frame["label_10"][i + 1] = Num(Compounded(RawFrame["ret"], i + 1, 10) - 1)

\* C3 as stated: with 100 rows and label_periods=[10], label_10 at row i (from 0)
\* is the compounded return of the base label over rows [i, i+10) for i <= 89 and
\* is 0 for every i > 89.
C3_AsStated ==
    Scenario =>
        /\ \A i \in 0..89 : CompoundedAt(i)
        /\ \A i \in 90..99 : frame["label_10"][i + 1] = Num(0)

\* C3 amended: with 100 rows and label_periods=[10], label_10 at row i (from 0) is
\* the compounded return of the base label over rows [i, i+10) for every i <= 90
\* (row 90 has the full window 90..99) and is 0 for every i > 90.
C3_LabelScenario ==
    Scenario =>
        /\ \A i \in 0..90 : CompoundedAt(i)
        /\ \A i \in 91..99 : frame["label_10"][i + 1] = Num(0)

\* the scenario was built over a series without nulls, row 90 holds a return that
\* is not 0 and row 91 holds the fill value
C3_Witness ==
    /\ Scenario
    /\ ctor.holeLen = 0
    /\ frame["label_10"][91] = Num(Compounded(RawFrame["ret"], 91, 10) - 1)
    /\ frame["label_10"][91].v > 0
    /\ frame["label_10"][92] = Num(0)

\* C4: for every horizon n > 1, label_n is 0 at each of the last n-1 rows of the
\* series, whatever the length of the series (also when it is shorter than n).
C4_BoundaryZero ==
    built =>
        \A k \in 1..Len(label_periods) :
            LET n == label_periods[k] IN
            n > 1 =>
                \A i \in 1..ctor.rows :
                    i > ctor.rows - (n - 1) => frame[LabelName(n)][i] = Num(0)

\* a series longer than its horizon was built: label_3 is a return before the
\* boundary and 0 on the last two rows
C4_Witness ==
    /\ built
    /\ ctor.rows = 41
    /\ ctor.label_periods = Periods(<<3, 2>>)
    /\ frame["label_3"][39].v > 0
    /\ frame["label_3"][40] = Num(0)
    /\ frame["label_3"][41] = Num(0)

\* C5: whatever label_periods is given (None, empty, a list, a list holding 1),
\* horizon 1 is prepended and label_1 is the first label; the label_1 column is the
\* base label column row by row, untransformed (a null stays null); the class
\* default list and the caller's list are as they were.
C5_IdentityLaw ==
    /\ default_label_periods = DefaultLabelPeriods
    /\ caller_periods = ctor.label_periods.l
    /\ built =>
        /\ label_periods = <<1>> \o (IF ctor.label_periods = NoPeriods
                                        THEN DefaultLabelPeriods
                                        ELSE ctor.label_periods.l)
        /\ labels[1] = "label_1"
        /\ frame["label_1"] = RawFrame[ctor.base_label]

\* a list that itself holds 1 was given over a base label with a null row
C5_Witness ==
    /\ built
    /\ ctor.label_periods = Periods(<<1, 3>>)
    /\ label_periods = <<1, 1, 3>>
    /\ frame["label_1"][1] = Null
    /\ frame["label_1"][2].v > 0

\* the rows of the window [i, i+n) of the base label that hold an observation
ValidInWindow(i, n) ==
    {r \in i..Min(ctor.rows, i + n - 1) : IsNum(RawFrame[ctor.base_label][r])}

\* C19: for every horizon n > 1, odd or even, label_n at a row whose n-row window
\* holds fewer than ceil(n/2) valid observations is the fill value 0, not a
\* compounded return of those fewer observations.
C19_MinPeriodsCeil ==
    built =>
        \A k \in 1..Len(label_periods) :
            LET n == label_periods[k] IN
            n > 1 =>
                \A i \in 1..ctor.rows :
                    Cardinality(ValidInWindow(i, n)) < (n + 1) \div 2
                        => frame[LabelName(n)][i] = Num(0)

(***************************************************************************)
(* The information coefficients over a range of correlations.             *)
(***************************************************************************)
\* what the engine's correlation may yield for a symbol, in tenths
CorrOutcomes == {NaN, Null, Num(-10), Num(1), Num(3)}

\* and for a symbol's time bucket; Missing: the symbol has no rows in the bucket
TsOutcomes == {Missing, NaN, Num(-10), Num(1)}

InitIC ==
    /\ Unbuilt(Ctor(<<"a">>, 3, <<1, 0>>, 0, 0, Num(2), Periods(<<10>>), TRUE))
    /\ rawCorr \in [SeqToSet(Symbols) -> CorrOutcomes]
    /\ rawTsCorr \in [SeqToSet(Symbols) -> [1..2 -> TsOutcomes]]
    /\ rawGroupRets = DefaultGroupRets
    /\ NoGroup
    /\ NoLoader

NextIC ==
    \/ AnalysisInit
    \/ ic_overall("pearson")
    \/ \E k \in BOOLEAN : ts_ic("1mo", k)

SpecIC == InitIC /\ [][NextIC]_vars

InBand(c) == c.t = "null" \/ (IsNum(c) /\ -IcBound <= c.v /\ c.v <= IcBound)

RatioInBand(c) ==
    c.t = "null" \/ (IsNum(c) /\ -IcBound * c.d <= c.v /\ c.v <= IcBound * c.d)

\* C6: every information coefficient ic_overall and ts_ic store, per factor, symbol
\* and time bucket and in the cross-symbol results, is null or lies in [-0.2, 0.2];
\* a NaN correlation is stored as null.
C6_IcInBand ==
    /\ \A i \in 1..Len(store["symbol_ic"].items) :
          \A s \in SeqToSet(Symbols) : InBand(store["symbol_ic"].items[i].val[s])
    /\ \A i \in 1..Len(store["_ic_overall"].items) :
          RatioInBand(store["_ic_overall"].items[i].val[1])
    /\ \A i \in 1..Len(store["symbol_ts_ic"].items) :
          \A s \in SeqToSet(Symbols) :
              \A b \in DOMAIN store["symbol_ts_ic"].items[i].val[s] :
                  InBand(store["symbol_ts_ic"].items[i].val[s][b])
    /\ \A i \in 1..Len(store["ts_ic"].items) :
          \A b \in DOMAIN store["ts_ic"].items[i].val :
              InBand(store["ts_ic"].items[i].val[b])

\* a correlation above the band and a NaN were met: the first is stored as 0.2, the
\* second as null, and the time series holds a clipped value too
C6_Witness ==
    /\ rawCorr["s1"] = Num(3)
    /\ rawCorr["s2"] = NaN
    /\ store["symbol_ic"].set
    /\ store["symbol_ic"].items[1].val["s1"] = Num(IcBound)
    /\ store["symbol_ic"].items[1].val["s2"] = Null
    /\ store["ts_ic"].set
    /\ rawTsCorr["s1"][1] = Num(-10)
    /\ store["ts_ic"].items[1].val[1] = Num(-IcBound)

(***************************************************************************)
(* Quantile bucketing over a range of factor columns.                      *)
(***************************************************************************)
\* the longest factor column tried
MaxGroupRows == 3

\* factor values, some beyond 2^20
GroupValues == {Null, Num(-3), Num(0), Num(7), Num(2 ^ 21), Num(2 ^ 21 + 10)}

GroupColumns == UNION {[1..n -> GroupValues] : n \in 1..MaxGroupRows}

InitGroup ==
    /\ Unbuilt(Ctor(<<"a">>, 3, <<1, 0>>, 0, 0, Num(2), Periods(<<10>>), TRUE))
    /\ rawCorr = [s \in SeqToSet(Symbols) |-> Num(3)]
    /\ rawTsCorr = [s \in SeqToSet(Symbols) |-> <<Num(3)>>]
    /\ rawGroupRets = DefaultGroupRets
    /\ gcol \in GroupColumns
    /\ garg \in [group : {10, 20, 4}, drop_peak : BOOLEAN]
    /\ ggroup = <<>>
    /\ NoLoader

NextGroup == get_ts_group

SpecGroup == InitGroup /\ [][NextGroup]_vars

\* the fixed label set of group=10
TenLabels == {Ratio(n, 10) : n \in {-10, -8, -6, -4, -2, 2, 4, 6, 8, 10}}

\* C7: with group=10 the group labels come from the ten labels
\* {-1,-0.8,-0.6,-0.4,-0.2,0.2,0.4,0.6,0.8,1}, and every row with a non-null factor
\* value (all of which lie within [min, max]) gets one of them, never a null group,
\* the rows of the minimum and of the maximum and the case min = max included.
C7_EveryRowBucketed ==
    (ggroup # <<>> /\ garg.group = 10 /\ ~garg.drop_peak) =>
        /\ Cardinality(TenLabels) = 10
        /\ \A i \in 1..Len(gcol) :
              /\ ggroup[i] \in TenLabels \cup {NullRatio}
              /\ IsNum(gcol[i]) => ggroup[i] \in TenLabels

(***************************************************************************)
(* The result store.                                                       *)
(***************************************************************************)
StoredFacs(a) == {store[a].items[i].fac : i \in 1..Len(store[a].items)}

ParallelToFacs(a) ==
    \A i \in 1..Len(store[a].items) :
        i <= Len(facs) /\ store[a].items[i].fac = facs[i]

\* C1: every per-factor list stored on Summary by calls that pass configured
\* factors is parallel to Summary.facs (entry i is the result computed for the
\* i-th configured factor), and fac_attr(attr, name) returns the result that was
\* computed for the factor called name.
C1_ListsParallelToFacs ==
    /\ \A a \in ListAttrs :
          (store[a].set /\ StoredFacs(a) \subseteq SeqToSet(facs)) => ParallelToFacs(a)
    /\ (req.op = "fac_attr" /\ req.key.t = "str" /\ ret.k = "value")
          => ret.name = req.key.s

\* the names that are defined on Summary in the current state
DefinedNames ==
    {a \in ResultAttrs : store[a].set} \cup DerivedAttrs \cup Members \cup SeqToSet(facs)

\* C8: reading a name that is no stored result, no derived metric, no configured
\* factor (and no member of Summary itself) yields None and does not raise, in
\* every state of the store.
C8_PermissiveLookup ==
    (req.op = "getattr" /\ req.attr \notin DefinedNames) => ret = PyNone

\* an unknown name was read after an algorithm had stored its results, and a result
\* name was read before its algorithm ran
C8_Witness ==
    /\ req.op = "getattr"
    /\ req.attr \in {"nope", "symbol_ts_ic"}
    /\ req.attr \notin DefinedNames
    /\ store["ts_ic"].set
    /\ ret = PyNone

\* the factor called name has no entry in the result stored under attr
AbsentFrom(attr, name) ==
    attr \in ResultAttrs /\ (~store[attr].set \/ name \notin StoredFacs(attr))

\* C9: requesting a result for a factor name that is absent from that result
\* raises ValueError ("fac: ... not in result"), whether or not the algorithm has
\* run and whether the result is a list or a single frame; no other error and no
\* other factor's result comes back.
C9_FactorNotFound ==
    (req.op = "fac_attr" /\ req.key.t = "str" /\ AbsentFrom(req.attr, req.key.s))
        => ret.k = "ValueError"

\* C10: after any half_life() or group_analyse() call the half-life is stored,
\* and over any sequence of such calls it was computed at most once.
C10_HalfLifeCachedOnce ==
    /\ hlRuns <= 1
    /\ req.op \in {"half_life", "group_analyse"} => store["half_life"].set

\* every result stored under a comes from a call with the argument by
FromCall(a, by) == \A i \in 1..Len(store[a].items) : store[a].items[i].by = by

\* C17: after a call of ic_overall, ts_ic, ts_group_ret or group_ret the
\* cross-symbol result and its per-symbol counterpart on Summary both come from
\* that call (its method or rule, its factors), whatever the arguments of earlier
\* calls were (keep_symbol_ic, rule, facs).
C17_RerunOverwrites ==
    /\ req.op = "ic_overall" =>
          /\ store["symbol_ic"].set /\ FromCall("symbol_ic", req.attr)
          /\ store["_ic_overall"].set /\ FromCall("_ic_overall", req.attr)
    /\ req.op = "ts_ic" =>
          /\ store["ts_ic"].set /\ FromCall("ts_ic", req.attr)
          /\ FromCall("symbol_ts_ic", req.attr)
    /\ req.op = "ts_group_ret" =>
          /\ store["ts_group_rets"].set
          /\ store["symbol_ts_group_rets"] = store["ts_group_rets"]
    /\ req.op = "group_ret" =>
          /\ store["group_rets"].set /\ FromCall("group_rets", req.attr)
          /\ store["symbol_group_rets"] = store["group_rets"]

(***************************************************************************)
(* The best horizon over a range of grouped returns.                       *)
(***************************************************************************)
\* grouped returns in units of 1e-4: columns of two and of three groups
GroupRetColumns == [1..2 -> {0, 6, 12}] \cup {<<6, 30, 0>>, <<0, -6, 12>>}

HorizonPeriods == {Periods(<<10>>), Periods(<<3, 2>>)}

\* the transaction cost rates, in units of 1e-4
CRates == {0, 1, 3}

InitHorizon ==
    /\ \E periods \in HorizonPeriods :
          /\ Unbuilt(Ctor(<<"a">>, 3, <<1, 0>>, 0, 0, Num(2), periods, TRUE))
          /\ rawGroupRets \in [1..(Len(periods.l) + 1) -> GroupRetColumns]
    /\ rawCorr = [s \in SeqToSet(Symbols) |-> Num(3)]
    /\ rawTsCorr = [s \in SeqToSet(Symbols) |-> <<Num(3)>>]
    /\ NoGroup
    /\ NoLoader

NextHorizon ==
    \/ AnalysisInit
    \/ \E r \in {"None", "1mo"} : group_ret(NoFacs, r)
    \/ \E k \in {StrKey("a"), IntKey(0), StrKey("zzz")}, c \in CRates : group_analyse(k, c)

SpecHorizon == InitHorizon /\ [][NextHorizon]_vars

\* the numerator of net(n) for the i-th horizon n: top-group return minus
\* bottom-group return minus 4 times the cost rate; net(n) is this over n
NetNumerator(i, c_rate) ==
    rawGroupRets[i][Len(rawGroupRets[i])] - rawGroupRets[i][1] - 4 * c_rate

C18_WitnessLast ==
    /\ req.op = "group_analyse"
    /\ ret.k = "best"
    /\ req.c_rate = 1
    /\ label_periods = <<1, 3, 2>>
    /\ rawGroupRets = <<<<0, 6>>, <<0, 12>>, <<0, 12>>>>
    /\ ret.items[1].best_period = "2"

(***************************************************************************)
(* The collection under construction, assignment, collect and lazy.        *)
(***************************************************************************)
\* the frames of test_base: pl.DataFrame(), test_df, pl.LazyFrame()
LoaderFrames == {DataFrame(<<>>), test_df, LazyFrame(<<>>)}

\* what a collection is constructed from, and the symbol lists given with it
LoaderArgs ==
    {FrameArg(f) : f \in LoaderFrames}
        \cup {ListArg(<<DataFrame(<<>>), test_df>>),
              ListArg(<<LazyFrame(<<>>), test_df>>)}

SymbolArgs == {NoSymbols, SymbolList(<<"a">>), SymbolList(<<"a", "b">>)}

\* the positions and symbols frames are assigned and read by
ItemKeys == {IntKey(0), IntKey(1), StrKey("a"), StrKey("b"), StrKey("c")}

\* the lists assigned to dfs and to symbols
DfsArgs == {<<test_df>>, <<LazyFrame(<<>>), DataFrame(<<>>)>>}

NameArgs == {<<"b">>, <<"a", "c">>}

Receivers == {"dl", "dl2"}

AnalysisIdle ==
    /\ Unbuilt(Ctor(<<"a">>, 3, <<1, 0>>, 0, 0, Num(2), Periods(<<10>>), TRUE))
    /\ rawCorr = [s \in SeqToSet(Symbols) |-> Num(3)]
    /\ rawTsCorr = [s \in SeqToSet(Symbols) |-> <<Num(3)>>]
    /\ rawGroupRets = DefaultGroupRets
    /\ NoGroup

InitLoader == AnalysisIdle /\ NoLoader

NextLoader ==
    \/ \E typ \in LoaderArgs, symbols \in SymbolArgs : DataLoaderInit(typ, symbols)
    \/ \E item \in ItemKeys, f \in LoaderFrames : SetItem(item, f)
    \/ \E i \in 0..1, f \in LoaderFrames : DfsSetItem(i, f)
    \/ \E item \in ItemKeys : GetItem(item)
    \/ \E frames \in DfsArgs : SetAttr("dfs", frames)
    \/ \E names \in NameArgs : SetAttr("symbols", names)
    \/ \E r \in Receivers, frames \in DfsArgs : With(r, "dfs", frames)
    \/ \E r \in Receivers, names \in NameArgs : With(r, "symbols", names)
    \/ \E r \in Receivers, par \in BOOLEAN, inplace \in BOOLEAN : Collect(r, par, inplace)
    \/ \E r \in Receivers : Lazy(r)
    \/ \E r \in Receivers : IsEager(r)
    \/ \E r \in Receivers : IsLazy(r)

SpecLoader == InitLoader /\ [][NextLoader]_vars

\* the slot (from 1) an item names in a collection, 0 when it names none
Slot(self, item) ==
    IF item.t = "int"
        THEN (IF item.i + 1 \in 1..Len(self.dl.dfs) THEN item.i + 1 ELSE 0)
        ELSE RsFindIndex(self.dl, item.s)

\* C11: coll[i] = frame and coll[symbol] = frame (a position or symbol the
\* collection has) replace the frame of that one slot and leave every other slot,
\* the number of frames and the symbols as they were; assigning into the list that
\* coll.dfs returns leaves the collection as it was, so coll[i] still is the frame
\* assigned before.
C11_SlotIsolation ==
    /\ (lreq.op = "setitem" /\ Slot(lreq.before, lreq.item) # 0) =>
          LET i == Slot(lreq.before, lreq.item) IN
          /\ lret.k = "None"
          /\ dl.dl.dfs[i] = lreq.value
          /\ Len(dl.dl.dfs) = Len(lreq.before.dl.dfs)
          /\ \A j \in 1..Len(dl.dl.dfs) : j # i => dl.dl.dfs[j] = lreq.before.dl.dfs[j]
          /\ dl.dl.symbols = lreq.before.dl.symbols
    /\ lreq.op = "dfs_setitem" =>
          /\ dl = lreq.before
          /\ \A i \in 0..1 : DunderGetitem(dl, IntKey(i)) = DunderGetitem(lreq.before, IntKey(i))

\* the list dl.dfs returned took an empty frame at position 0 while dl[0] is still
\* test_df, in a collection of two frames
C11_Witness ==
    /\ lreq.op = "dfs_setitem"
    /\ lret.k = "list"
    /\ lret.v[1] = DataFrame(<<>>)
    /\ Len(dl.dl.dfs) = 2
    /\ DunderGetitem(dl, IntKey(0)) = [k |-> "frame", v |-> test_df]

AllEager(self) == \A i \in 1..Len(self.dl.dfs) : ~self.dl.dfs[i].lazy

AllLazy(self) == \A i \in 1..Len(self.dl.dfs) : self.dl.dfs[i].lazy

\* the same symbols and, frame by frame, the same rows
SameData(a, b) ==
    /\ b.live
    /\ a.dl.symbols = b.dl.symbols
    /\ Len(a.dl.dfs) = Len(b.dl.dfs)
    /\ \A i \in 1..Len(a.dl.dfs) : a.dl.dfs[i].rows = b.dl.dfs[i].rows

\* C13: collect() returns a collection of the same data in which every frame is
\* eager, however many were eager before, and lazy() one in which every frame is
\* lazy; with inplace=False (and after lazy()) the receiver is as it was, with
\* inplace=True every frame of the receiver is eager; is_lazy() holds of an
\* all-lazy collection and is_eager() of an all-eager one.
C13_CollectLazy ==
    /\ lreq.op = "collect" =>
          /\ AllEager(dl2)
          /\ SameData(lreq.before, dl2)
          /\ lreq.recv = "dl" =>
                IF lreq.value.inplace THEN AllEager(dl) /\ SameData(lreq.before, dl)
                ELSE dl = lreq.before
    /\ lreq.op = "lazy" =>
          /\ AllLazy(dl2)
          /\ SameData(lreq.before, dl2)
          /\ lreq.recv = "dl" => dl = lreq.before
    /\ (lreq.op = "is_lazy" /\ AllLazy(lreq.before)) => lret.v
    /\ (lreq.op = "is_eager" /\ AllEager(lreq.before)) => lret.v

\* a collection of a lazy frame and test_df was collected with inplace=False: the
\* result is all eager with the rows of test_df, the receiver still holds its lazy
\* frame
C13_Witness ==
    /\ lreq.op = "collect"
    /\ lreq.recv = "dl"
    /\ ~lreq.value.inplace
    /\ dl.dl.dfs = <<LazyFrame(<<>>), test_df>>
    /\ dl2.dl.dfs = <<DataFrame(<<>>), test_df>>

Uniform(self) == AllEager(self) \/ AllLazy(self)

\* C14 as stated: in every reachable state of a collection all frames share the
\* same execution state, so is_eager() returning true means every frame is eager
\* and is_lazy() returning true means every frame is lazy.
C14_UniformState ==
    /\ dl.live => Uniform(dl)
    /\ dl2.live => Uniform(dl2)
    /\ (lreq.op = "is_eager" /\ lret.v) => AllEager(lreq.before)
    /\ (lreq.op = "is_lazy" /\ lret.v) => AllLazy(lreq.before)

\* C14 amended: is_eager() returns true exactly when the first frame of the
\* (non-empty) collection is eager and is_lazy() exactly when it is lazy; all frames
\* share one execution state in what collect() and lazy() return.
C14_FirstFrameState ==
    /\ lreq.op = "is_eager" => lret.v = ~lreq.before.dl.dfs[1].lazy
    /\ lreq.op = "is_lazy" => lret.v = lreq.before.dl.dfs[1].lazy
    /\ lreq.op \in {"collect", "lazy"} => Uniform(dl2)

\* is_eager() answered true for a collection whose second frame is lazy
C14_Witness ==
    /\ lreq.op = "is_eager"
    /\ lreq.recv = "dl"
    /\ lret.v
    /\ Len(dl.dl.dfs) = 2
    /\ dl.dl.dfs[2].lazy

\* the number of frames a collection is constructed from
FramesGiven(typ) == IF typ.t = "frame" THEN 1 ELSE Len(typ.l)

SymbolsMatch(self) ==
    (self.live /\ self.dl.symbols.t = "list")
        => Len(self.dl.symbols.l) = Len(self.dl.dfs)

MetaFields == {"type", "start", "end", "freq"}

\* the values the metadata is set to
MetaValues(field) ==
    IF field = "type" THEN {"test", "test2"}
    ELSE IF field = "start" THEN {"2024-01-01", "2024-01-02"}
    ELSE IF field = "end" THEN {"2024-01-03"}
    ELSE {"1d"}

InitMeta == AnalysisIdle /\ NoLoader

NextMeta ==
    \/ DataLoaderInit(FrameArg(DataFrame(<<>>)), SymbolList(<<"a">>))
    \/ \E f \in {"type", "start", "freq"} : \E v \in MetaValues(f) : SetAttr(f, v)
    \/ SetAttr("note", "x")
    \/ \E r \in Receivers, f \in MetaFields : \E v \in MetaValues(f) : With(r, f, v)
    \/ \E r \in Receivers : With(r, "dfs", <<test_df>>)
    \/ \E r \in Receivers : With(r, "symbols", <<"b">>)

SpecMeta == InitMeta /\ [][NextMeta]_vars

\* what a collection holds after a value was set for a field
Carried(field, value) ==
    IF field = "dfs" THEN value
    ELSE IF field = "symbols" THEN SymbolList(value)
    ELSE IF field = "type" THEN StrValue(value)
    ELSE IF field = "freq" THEN StrValue(value)
    ELSE IF value = "2024-01-01" THEN Datetime(2024, 1, 1)
    ELSE IF value = "2024-01-02" THEN Datetime(2024, 1, 2)
    ELSE Datetime(2024, 1, 3)

\* the collection new carries value for field and is as old in every other field
SetOnly(old, new, field, value) ==
    /\ new.live
    /\ new.dl[field] = Carried(field, value)
    /\ \A f \in DelegatedAttrs \ {field} : new.dl[f] = old.dl[f]

\* C12: a builder (with_type, with_start, with_end, with_freq, with_symbols,
\* with_dfs) returns a collection that carries the new value and is otherwise as
\* the receiver, and leaves the receiver as it was (dl.end is None as long as it was
\* never assigned, whatever was built from dl); an attribute assignment
\* (dl.type = v, dl.start = v, dl.freq = v) changes that field of the receiver.
C12_BuildersLeaveReceiver ==
    /\ dl.live => dl.dl.end = NoneValue
    /\ lreq.op = "with" =>
          /\ lret.k = "DataLoader"
          /\ SetOnly(lreq.before, dl2, lreq.item.s, lreq.value)
          /\ lreq.recv = "dl" => dl = lreq.before
    /\ (lreq.op = "setattr" /\ lreq.item.s \in DelegatedAttrs) =>
          /\ lret.k = "None"
          /\ SetOnly(lreq.before, dl, lreq.item.s, lreq.value)

\* dl.type and dl.start were assigned, dl2 = dl.with_type(..).with_start(..)
\* .with_end(..) was built, and dl is as before with end None
C12_Witness ==
    /\ lreq.op = "with"
    /\ lreq.recv = "dl2"
    /\ lreq.item.s = "end"
    /\ dl2.dl.type = StrValue("test2")
    /\ dl2.dl.start = Datetime(2024, 1, 2)
    /\ dl2.dl.end = Datetime(2024, 1, 3)
    /\ dl.dl.type = StrValue("test")
    /\ dl.dl.start = Datetime(2024, 1, 1)
    /\ dl.dl.end = NoneValue

(***************************************************************************)
(* align over a range of frames.                                           *)
(***************************************************************************)
\* the largest key value of the frames aligned
MaxKey == 3

\* an eager frame with one row per key of S, in key order (one row per time
\* bucket, as an aggregation yields them)
KeyedFrame(S) ==
    LET keys == SortedKeys(S) IN
    DataFrame([j \in 1..Len(keys) |-> Row(keys[j], Num(10 * keys[j]))])

AlignFrames == {KeyedFrame(S) : S \in SUBSET (1..MaxKey)}

AlignLists == [1..2 -> AlignFrames] \cup [1..3 -> AlignFrames]

Hows == {"None", "outer", "inner", "left"}

InitAlign == AnalysisIdle /\ NoLoader

NextAlign ==
    \/ \E l \in AlignLists : DataLoaderInit(ListArg(l), NoSymbols)
    \/ \E how \in Hows : Align("dl", how)

SpecAlign == InitAlign /\ [][NextAlign]_vars

\* C16: with how not given, every frame of the aligned collection holds exactly
\* the union of the key values of all input frames, each key once; at a key its
\* own input frame has, a frame holds that row's value, at a key only other frames
\* have it holds null.
C16_OuterJoinComplete ==
    (lreq.op = "align" /\ lreq.value = "None") =>
        LET in == lreq.before.dl.dfs
            out == dl2.dl.dfs
            union == UNION {FrameKeys(in[i]) : i \in 1..Len(in)}
        IN /\ Len(out) = Len(in)
           /\ \A i \in 1..Len(out) :
                 /\ FrameKeys(out[i]) = union
                 /\ Len(out[i].rows) = Cardinality(union)
                 /\ \A j \in 1..Len(out[i].rows) :
                       LET k == out[i].rows[j].k IN
                       IF k \in FrameKeys(in[i])
                           THEN out[i].rows[j].v = Num(10 * k)
                           ELSE out[i].rows[j].v = Null

\* three frames with keys {1}, {1, 2} and {3} were aligned: the first holds the
\* keys 1, 2, 3 with nulls at 2 and 3
C16_Witness ==
    /\ lreq.op = "align"
    /\ lreq.value = "None"
    /\ Len(dl.dl.dfs) = 3
    /\ FrameKeys(dl.dl.dfs[1]) = {1}
    /\ FrameKeys(dl.dl.dfs[3]) = {3}
    /\ dl2.dl.dfs[1].rows = <<Row(1, Num(10)), Row(2, Null), Row(3, Null)>>

====
